---- MODULE Spec2Model ----
(***************************************************************************)
(* The Sling stream-to-asset translation of dagster_embedded_elt           *)
(* (sling/asset_decorator.py): get_streams_from_replication,               *)
(* DagsterSlingTranslator and the sling_assets decorator factory.          *)
(*                                                                         *)
(* A Python str is a sequence of one-character strings.  Any other Python  *)
(* value is a tagged record: [t |-> "none"], [t |-> "str", v |-> chars],   *)
(* [t |-> "list", v |-> items], [t |-> "dict", v |-> entries], where the   *)
(* entries of a dict are [key, value] records in insertion order.  An      *)
(* AssetKey is the sequence of its path segments.                          *)
(***************************************************************************)
EXTENDS Integers, Sequences, FiniteSets, TLC

VARIABLES pc, kwarg, replication, streams, specs, exc, my_sling_assets,
          fn, stream_name, target_prefix, ret,
          rs_pc, table_slice, conn, rs_exc

vars == <<pc, kwarg, replication, streams, specs, exc, my_sling_assets,
          fn, stream_name, target_prefix, ret,
          rs_pc, table_slice, conn, rs_exc>>

\* Longest stream name of the bounded string universe.
MaxLen == 3

\* Largest number of entries of a generated streams mapping.
MaxStreams == 2

----------------------------------------------------------------------------
\* Python values

PyNone == [t |-> "none"]

PyStr(s) == [t |-> "str", v |-> s]

PyList(l) == [t |-> "list", v |-> l]

PyDict(d) == [t |-> "dict", v |-> d]

Entry(k, val) == [key |-> k, value |-> val]

\* bool(value): None and empty strings, lists and dicts are falsy.
Truthy(val) == val.t # "none" /\ Len(val.v) > 0

\* dict.get(k, default) of a value known to be a dict.
DictGet(d, k, default) ==
    IF \E i \in 1..Len(d.v) : d.v[i].key = k
    THEN d.v[CHOOSE i \in 1..Len(d.v) : d.v[i].key = k].value
    ELSE default

----------------------------------------------------------------------------
\* Characters

LowerCase == {"a", "b", "c", "d", "e", "f", "g", "h", "i", "j", "k", "l", "m",
              "n", "o", "p", "q", "r", "s", "t", "u", "v", "w", "x", "y", "z"}

UpperCase == {"A", "B", "C", "D", "E", "F", "G", "H", "I", "J", "K", "L", "M",
              "N", "O", "P", "Q", "R", "S", "T", "U", "V", "W", "X", "Y", "Z"}

Digits == {"0", "1", "2", "3", "4", "5", "6", "7", "8", "9"}

\* The character class [a-zA-Z0-9_.] of the substitution pattern.
AllowedChars == LowerCase \cup UpperCase \cup Digits \cup {"_", "."}

DoubleQuote == "\""

----------------------------------------------------------------------------
\* DagsterSlingTranslator

\* str.replace('"', ""): every double quote is deleted.
RemoveQuotes(s) == SelectSeq(s, LAMBDA c : c # DoubleQuote)

\* A run of characters outside the class becomes one underscore.
RECURSIVE SubDisallowedRuns(_)
SubDisallowedRuns(s) ==
    IF s = <<>> THEN <<>>
    ELSE IF s[1] \in AllowedChars THEN <<s[1]>> \o SubDisallowedRuns(Tail(s))
    ELSE IF Len(s) > 1 /\ s[2] \notin AllowedChars THEN SubDisallowedRuns(Tail(s))
    ELSE <<"_">> \o SubDisallowedRuns(Tail(s))

\* re.sub(r"[^a-zA-Z0-9_.]", "_", s): each character outside the class
\* becomes one underscore.
SubDisallowed(s) == [i \in 1..Len(s) |-> IF s[i] \in AllowedChars THEN s[i] ELSE "_"]

sanitize_replacing_quotes(s) == SubDisallowed(s)

sanitize_removing_underscores(s) == SubDisallowed(SelectSeq(s, LAMBDA c : c # "_"))

sanitize_stream_name(s) == SubDisallowed(RemoveQuotes(s))

\* str.split(sep) with a one-character separator: one piece more than there
\* are separators, empty pieces kept.
RECURSIVE Split(_, _)
Split(s, sep) ==
    IF \A i \in 1..Len(s) : s[i] # sep
    THEN <<s>>
    ELSE LET i == CHOOSE j \in 1..Len(s) : s[j] = sep /\ \A k \in 1..(j-1) : s[k] # sep
         IN  <<SubSeq(s, 1, i - 1)>> \o Split(SubSeq(s, i + 1, Len(s)), sep)

\* The default of get_asset_key_for_target's target_prefix parameter.
DefaultTargetPrefix == <<"t", "a", "r", "g", "e", "t">>

target_key_without_prefix(s, prefix) == Split(sanitize_stream_name(s), ".")

get_asset_key_for_target(s, prefix) == <<prefix>> \o Split(sanitize_stream_name(s), ".")

deps_key_with_prefix(s) == <<DefaultTargetPrefix>> \o Split(sanitize_stream_name(s), ".")

get_deps_asset_key(s) == Split(sanitize_stream_name(s), ".")

----------------------------------------------------------------------------
\* Outcomes of a call: a returned value or a raised exception

Return(val) == [exc |-> "none", at |-> "none", val |-> val]

\* e is the exception type, at the function whose statement raised it.
Raise(e, at) == [exc |-> e, at |-> at, val |-> <<>>]

NoException == [type |-> "none", at |-> "none"]

Exception(e, at) == [type |-> e, at |-> at]

----------------------------------------------------------------------------
\* get_streams_from_replication

\* One iteration of the loop over replication_config["streams"].items():
\* the element appended to keys, or the AttributeError of calling .get on a
\* value that is not a dict.
StreamOfEntry(key, value) ==
    IF value.t = "dict"
    THEN LET meta == DictGet(value, "meta", PyDict(<<>>))
         IN  IF meta.t # "dict" THEN Raise("AttributeError", "get_streams_from_replication")
             ELSE LET dagster == DictGet(meta, "dagster", PyDict(<<>>))
                  IN  IF dagster.t # "dict" THEN Raise("AttributeError", "get_streams_from_replication")
                      ELSE LET asset_key_config == DictGet(dagster, "asset_key", PyList(<<>>))
                           IN  Return(IF Truthy(asset_key_config)
                                      THEN asset_key_config
                                      ELSE PyStr(key))
    ELSE Return(PyStr(key))

\* Entries whose descriptor is None are skipped.
RECURSIVE StreamsLoop_skipping_none(_, _)
StreamsLoop_skipping_none(items, keys) ==
    IF items = <<>> THEN Return(keys)
    ELSE LET r == StreamOfEntry(items[1].key, items[1].value)
         IN  IF r.exc # "none" THEN r
             ELSE IF items[1].value.t = "none"
                  THEN StreamsLoop_skipping_none(Tail(items), keys)
                  ELSE StreamsLoop_skipping_none(Tail(items), Append(keys, r.val))

RECURSIVE StreamsLoop(_, _)
StreamsLoop(items, keys) ==
    IF items = <<>> THEN Return(keys)
    ELSE LET r == StreamOfEntry(items[1].key, items[1].value)
         IN  IF r.exc # "none" THEN r
             ELSE StreamsLoop(Tail(items), Append(keys, r.val))

get_streams_from_replication(replication_config) ==
    StreamsLoop(DictGet(replication_config, "streams", PyNone).v, <<>>)

----------------------------------------------------------------------------
\* sling_assets

\* The AssetSpec built for one stream.  The translator methods call
\* stream_name.replace, which only a str has.
SpecOfStream(stream) ==
    IF stream.t # "str" THEN Raise("AttributeError", "sanitize_stream_name")
    ELSE Return([key  |-> get_asset_key_for_target(stream.v, DefaultTargetPrefix),
                 deps |-> get_deps_asset_key(stream.v)])

RECURSIVE SpecsLoop(_, _)
SpecsLoop(strs, acc) ==
    IF strs = <<>> THEN Return(acc)
    ELSE LET r == SpecOfStream(strs[1])
         IN  IF r.exc # "none" THEN r
             ELSE SpecsLoop(Tail(strs), Append(acc, r.val))

\* The keyword-only parameters of sling_assets; replication_config is the
\* only one without a default.
ParameterNames == {"replication_config", "dagster_sling_translator", "name",
                   "partitions_def", "backfill_policy", "op_tags", "group_name",
                   "code_version", "freshness_policy", "auto_materialize_policy"}

RequiredParameter == "replication_config"

\* Binding a call that passes one keyword argument.
BindsArguments(kw) == kw \in ParameterNames /\ kw = RequiredParameter

----------------------------------------------------------------------------
\* Inputs

\* The characters stream names are built from: a lower-case letter, an
\* upper-case letter, a digit, the underscore, the dot, the double quote and
\* two characters outside the class.
Alphabet == {"a", "B", "7", "_", ".", DoubleQuote, " ", "!"}

RECURSIVE StringsOfLen(_)
StringsOfLen(n) ==
    IF n = 0 THEN {<<>>}
    ELSE {Append(s, c) : s \in StringsOfLen(n - 1), c \in Alphabet}

public_accounts == <<"p", "u", "b", "l", "i", "c", ".", "a", "c", "c", "o", "u", "n", "t", "s">>

public_foo_users == <<"p", "u", "b", "l", "i", "c", ".", "\"", "f", "o", "o", " ", "u", "s", "e", "r", "s", "\"">>

public_Transactions == <<"p", "u", "b", "l", "i", "c", ".", "T", "r", "a", "n", "s", "a", "c", "t", "i", "o", "n", "s">>

public_all_users == <<"p", "u", "b", "l", "i", "c", ".", "a", "l", "l", "_", "u", "s", "e", "r", "s">>

public_finance_departments_old == <<"p", "u", "b", "l", "i", "c", ".", "\"", "f", "i", "n", "a", "n", "c", "e", " ", "d", "e", "p", "a", "r", "t", "m", "e", "n", "t", "s", " ", "o", "l", "d", "\"">>

weird_name == <<"\"", "w", "e", "i", "r", "d", " ", "n", "a", "m", "e", "!", "\"">>

TestStreamNames == {public_accounts, public_foo_users, public_Transactions,
                    public_all_users, public_finance_departments_old}

\* The stream names the translator methods are called with.
StreamNames == UNION {StringsOfLen(n) : n \in 0..MaxLen} \cup TestStreamNames \cup {weird_name}

Prefixes == {DefaultTargetPrefix, <<"r", "a", "w">>, <<>>}

\* Values of meta.dagster.asset_key and meta.dagster.deps.
asset_key_str == PyStr(<<"m", ".", "y", " ", "u">>)

asset_key_list == PyList(<<<<"m">>, <<"y">>>>)

deps_str == PyStr(<<"s", "r", "c">>)

Dagster(d) == PyDict(<<Entry("meta", PyDict(<<Entry("dagster", PyDict(d))>>))>>)

\* Stream descriptors: absent, a scalar, and dicts with and without the
\* meta.dagster path, its asset_key and its deps.
Descriptors ==
    { PyNone,
      PyStr(<<"x">>),
      PyDict(<<Entry("disabled", PyStr(<<"y">>))>>),
      PyDict(<<Entry("meta", PyDict(<<>>))>>),
      Dagster(<<>>),
      Dagster(<<Entry("asset_key", PyStr(<<>>))>>),
      Dagster(<<Entry("asset_key", asset_key_str)>>),
      Dagster(<<Entry("asset_key", asset_key_list)>>),
      Dagster(<<Entry("deps", deps_str)>>),
      Dagster(<<Entry("asset_key", asset_key_str), Entry("deps", deps_str)>>),
      PyDict(<<Entry("meta", PyNone)>>),
      PyDict(<<Entry("meta", PyDict(<<Entry("dagster", PyNone)>>))>>) }

ConfigKeys == {<<"a", ".", "b">>, <<DoubleQuote, "a", " ", "b", DoubleQuote>>, <<"c">>}

KeysOf(m) == {m[i].key : i \in 1..Len(m)}

\* Streams mappings of n entries: the keys of a mapping are distinct, and
\* every insertion order occurs.
RECURSIVE StreamsOfLen(_)
StreamsOfLen(n) ==
    IF n = 0 THEN {<<>>}
    ELSE UNION {{Append(m, Entry(k, d)) : k \in ConfigKeys \ KeysOf(m), d \in Descriptors} :
                  m \in StreamsOfLen(n - 1)}

ReplicationOf(m) == PyDict(<<Entry("streams", PyDict(m))>>)

\* sling_replication.yaml of the tests, parsed.
replication_yaml ==
    ReplicationOf(<<Entry(public_accounts, PyNone),
                    Entry(public_foo_users, PyNone),
                    Entry(public_Transactions, PyNone),
                    Entry(public_all_users, PyNone),
                    Entry(public_finance_departments_old, PyNone)>>)

replication_yaml_reversed ==
    ReplicationOf(<<Entry(public_finance_departments_old, PyNone),
                    Entry(public_all_users, PyNone),
                    Entry(public_Transactions, PyNone),
                    Entry(public_foo_users, PyNone),
                    Entry(public_accounts, PyNone)>>)

replication_path == [t |-> "path", v |-> <<"sling_replication.yaml">>]

\* The replication arguments: an inline mapping, a Path and os.fspath of it.
ReplicationParams ==
    {ReplicationOf(m) : m \in UNION {StreamsOfLen(n) : n \in 0..MaxStreams}}
    \cup {replication_yaml, replication_yaml_reversed, replication_path,
          PyStr(replication_path.v)}

Keywords == {"replication", "replication_config"}

\* validate_replication: a path is loaded and parsed, a mapping is itself.
validate_replication(param) ==
    IF param.t = "dict" THEN param ELSE replication_yaml

----------------------------------------------------------------------------
\* Actions

\* Before delete_table_slice is called: no table slice, no connection.
NoTableSlice == [schema |-> "", table |-> "", partition |-> [present |-> FALSE]]

NoConnection == [opened |-> FALSE, open |-> FALSE, calls |-> <<>>]

\* An optional argument of a call: passed with a value, or left out.
Passed(val) == [passed |-> TRUE, v |-> val]

NotPassed == [passed |-> FALSE, v |-> <<>>]

Init ==
    /\ pc = "start"
    /\ kwarg = "none"
    /\ replication = PyNone
    /\ streams = <<>>
    /\ specs = <<>>
    /\ exc = NoException
    /\ my_sling_assets = [defined |-> FALSE, keys |-> {}]
    /\ fn = "none"
    /\ stream_name = <<>>
    /\ target_prefix = NotPassed
    /\ ret = <<>>
    /\ rs_pc = "idle"
    /\ table_slice = NoTableSlice
    /\ conn = NoConnection
    /\ rs_exc = "none"

redshift_vars == <<rs_pc, table_slice, conn, rs_exc>>

translator_vars == <<fn, stream_name, target_prefix, ret>>

decorator_vars == <<pc, kwarg, replication, streams, specs, exc, my_sling_assets>>

\* sling_assets(<kw>=<param>): the call of the decorator factory, up to the
\* return of inner or the first exception.
sling_assets ==
    /\ pc = "start"
    /\ \E kw \in Keywords, param \in ReplicationParams :
           /\ kwarg' = kw
           /\ replication' = param
           /\ IF ~BindsArguments(kw)
              THEN /\ exc' = Exception("TypeError", "sling_assets")
                   /\ pc' = "raised"
                   /\ UNCHANGED <<streams, specs>>
              ELSE LET replication_config == validate_replication(param)
                       s == get_streams_from_replication(replication_config)
                       a == SpecsLoop(s.val, <<>>)
                   IN  IF s.exc # "none"
                       THEN /\ exc' = Exception(s.exc, s.at)
                            /\ pc' = "raised"
                            /\ UNCHANGED <<streams, specs>>
                       ELSE IF a.exc # "none"
                       THEN /\ exc' = Exception(a.exc, a.at)
                            /\ pc' = "raised"
                            /\ streams' = s.val
                            /\ UNCHANGED specs
                       ELSE /\ exc' = NoException
                            /\ pc' = "factory_returned"
                            /\ streams' = s.val
                            /\ specs' = a.val
           /\ UNCHANGED my_sling_assets
           /\ UNCHANGED translator_vars
           /\ UNCHANGED redshift_vars

\* inner(fn): the decorator applied to the function; the keys of the
\* assets definition are the keys of the specs.
inner ==
    /\ pc = "factory_returned"
    /\ my_sling_assets' = [defined |-> TRUE,
                           keys |-> {specs[i].key : i \in 1..Len(specs)}]
    /\ pc' = "decorated"
    /\ UNCHANGED <<kwarg, replication, streams, specs, exc>>
    /\ UNCHANGED translator_vars
    /\ UNCHANGED redshift_vars

\* The translator's class methods, each called once on a stream name.
Call_sanitize_stream_name ==
    /\ fn = "none"
    /\ \E s \in StreamNames :
           /\ fn' = "sanitize_stream_name"
           /\ stream_name' = s
           /\ target_prefix' = NotPassed
           /\ ret' = sanitize_stream_name(s)
           /\ UNCHANGED decorator_vars
           /\ UNCHANGED redshift_vars

\* get_asset_key_for_target(s) and get_asset_key_for_target(s, p).
Call_get_asset_key_for_target ==
    /\ fn = "none"
    /\ \E s \in StreamNames, p \in Prefixes, passed \in BOOLEAN :
           /\ fn' = "get_asset_key_for_target"
           /\ stream_name' = s
           /\ target_prefix' = IF passed THEN Passed(p) ELSE NotPassed
           /\ ret' = get_asset_key_for_target(s, IF passed THEN p ELSE DefaultTargetPrefix)
           /\ UNCHANGED decorator_vars
           /\ UNCHANGED redshift_vars

Call_get_deps_asset_key ==
    /\ fn = "none"
    /\ \E s \in StreamNames :
           /\ fn' = "get_deps_asset_key"
           /\ stream_name' = s
           /\ target_prefix' = NotPassed
           /\ ret' = get_deps_asset_key(s)
           /\ UNCHANGED decorator_vars
           /\ UNCHANGED redshift_vars

Next ==
    \/ sling_assets
    \/ inner

Spec == Init /\ [][Next]_vars

NextTranslator ==
    \/ Call_sanitize_stream_name
    \/ Call_get_asset_key_for_target
    \/ Call_get_deps_asset_key

SpecTranslator == Init /\ [][NextTranslator]_vars

----------------------------------------------------------------------------
\* Properties of the translator's class methods (SpecTranslator)

RECURSIVE Join(_, _)
Join(pieces, sep) ==
    IF Len(pieces) = 1 THEN pieces[1]
    ELSE pieces[1] \o <<sep>> \o Join(Tail(pieces), sep)

\* pieces are the pieces of str split on the dot: none of them holds a dot,
\* and joined by dots in their order they give str back.
IsSplitOnDots(pieces, str) ==
    /\ Len(pieces) >= 1
    /\ \A i \in 1..Len(pieces) : \A j \in 1..Len(pieces[i]) : pieces[i][j] # "."
    /\ Join(pieces, ".") = str

EffectivePrefix == IF target_prefix.passed THEN target_prefix.v ELSE <<"t", "a", "r", "g", "e", "t">>

IsString(x) == DOMAIN x = 1..Len(x) /\ \A i \in 1..Len(x) : x[i] \in Alphabet \cup AllowedChars

\* C6: sanitize_stream_name is idempotent and total: for every string it
\* returns a string, and sanitizing the result again gives the result.
C6_SanitizeIdempotentTotal ==
    fn = "sanitize_stream_name" =>
        /\ IsString(ret)
        /\ sanitize_stream_name(ret) = ret

C6_Witness ==
    /\ fn = "sanitize_stream_name"
    /\ stream_name = <<DoubleQuote, "_", "!">>
    /\ ret = <<"_", "_">>

NonQuoteIndices(s) == {j \in 1..Len(s) : s[j] # DoubleQuote}

\* The index in s of its n-th character that is not a double quote.
NthNonQuote(s, n) ==
    CHOOSE j \in NonQuoteIndices(s) : Cardinality({k \in NonQuoteIndices(s) : k <= j}) = n

C8_WeirdNameKeepsQuotesAsUnderscores ==
    (fn = "sanitize_stream_name" /\ stream_name = weird_name) =>
        ret = <<"_", "w", "e", "i", "r", "d", "_", "n", "a", "m", "e", "_", "_">>

\* C8: sanitizing the 13-character string "weird name!" written with its
\* double quotes returns the 11-character weird_name_: the two quotes are
\* deleted, the space and the exclamation mark become one underscore each.
C8_WeirdNameSanitized ==
    (fn = "sanitize_stream_name" /\ stream_name = weird_name) =>
        ret = <<"w", "e", "i", "r", "d", "_", "n", "a", "m", "e", "_">>

C8_Witness ==
    /\ fn = "sanitize_stream_name"
    /\ stream_name = weird_name
    /\ Len(stream_name) = 13
    /\ Len(ret) = 11

----------------------------------------------------------------------------
\* Properties of sling_assets (Spec)

\* The entries of the streams mapping sling_assets was called with.
Items == DictGet(validate_replication(replication), "streams", PyDict(<<>>)).v

HasKey(d, k) == d.t = "dict" /\ \E i \in 1..Len(d.v) : d.v[i].key = k

\* The value at meta.dagster.<field> of a descriptor, None when the path is
\* not there.
MetaDagster(value, field) ==
    IF /\ HasKey(value, "meta")
       /\ HasKey(DictGet(value, "meta", PyNone), "dagster")
       /\ HasKey(DictGet(DictGet(value, "meta", PyNone), "dagster", PyNone), field)
    THEN DictGet(DictGet(DictGet(value, "meta", PyNone), "dagster", PyNone), field, PyNone)
    ELSE PyNone

SameValue(a, b) == a.t = b.t /\ a = b

\* The call bound its arguments and left the start.
Called == pc # "start" /\ kwarg = "replication_config"

\* The factory returned: specs holds one AssetSpec per stream.
Translated == Called /\ pc \in {"factory_returned", "decorated"}

NoOverrides ==
    \A i \in 1..Len(Items) :
        /\ MetaDagster(Items[i].value, "asset_key") = PyNone
        /\ MetaDagster(Items[i].value, "deps") = PyNone

\* C1 as stated: for a replication whose streams carry no metadata
\* overrides, sling_assets(replication=<spec>) applied to a function yields an
\* assets definition whose keys are exactly "target" followed by the pieces
\* of the sanitized stream name, for each stream, whatever the order of the
\* streams; for the five streams of the test these are the five
\* target/public/<name> keys.
C1_TestCallYieldsTargetKeys ==
    (pc # "start" /\ kwarg = "replication" /\ NoOverrides) =>
        /\ pc # "raised"
        /\ pc = "decorated" =>
              /\ my_sling_assets.keys =
                    {<<<<"t", "a", "r", "g", "e", "t">>>> \o Split(sanitize_stream_name(Items[i].key), ".") :
                        i \in 1..Len(Items)}
              /\ {Items[i].key : i \in 1..Len(Items)} = TestStreamNames =>
                    my_sling_assets.keys =
                        {<<<<"t", "a", "r", "g", "e", "t">>, <<"p", "u", "b", "l", "i", "c">>, <<"a", "c", "c", "o", "u", "n", "t", "s">>>>,
                         <<<<"t", "a", "r", "g", "e", "t">>, <<"p", "u", "b", "l", "i", "c">>, <<"f", "o", "o", "_", "u", "s", "e", "r", "s">>>>,
                         <<<<"t", "a", "r", "g", "e", "t">>, <<"p", "u", "b", "l", "i", "c">>, <<"T", "r", "a", "n", "s", "a", "c", "t", "i", "o", "n", "s">>>>,
                         <<<<"t", "a", "r", "g", "e", "t">>, <<"p", "u", "b", "l", "i", "c">>, <<"a", "l", "l", "_", "u", "s", "e", "r", "s">>>>,
                         <<<<"t", "a", "r", "g", "e", "t">>, <<"p", "u", "b", "l", "i", "c">>, <<"f", "i", "n", "a", "n", "c", "e", "_", "d", "e", "p", "a", "r", "t", "m", "e", "n", "t", "s", "_", "o", "l", "d">>>>}

\* C2 as stated: for every stream whose descriptor carries a string
\* meta.dagster.asset_key, the target key sling_assets produces for the
\* stream is the override itself, neither sanitized nor split nor prefixed.
C2_TargetKeyIsOverride ==
    Translated =>
        \A i \in 1..Len(Items) :
            LET o == MetaDagster(Items[i].value, "asset_key")
            IN  (o.t = "str" /\ Truthy(o)) => specs[i].key = <<o.v>>

\* C3 as stated: for every stream whose descriptor carries a
\* meta.dagster.deps, the dependency key sling_assets declares for the stream
\* is the override, not the key computed from the stream name.
C3_DepsKeyIsOverride ==
    Translated =>
        \A i \in 1..Len(Items) :
            LET o == MetaDagster(Items[i].value, "deps")
            IN  (o.t = "str" /\ Truthy(o)) => specs[i].deps = <<o.v>>

\* A descriptor that is null, or a dict whose meta and meta.dagster, where
\* present, are dicts and whose asset_key, where present, is a string or a
\* list.
NullOrStructured(value) ==
    \/ value.t = "none"
    \/ /\ value.t = "dict"
       /\ HasKey(value, "meta") => DictGet(value, "meta", PyNone).t = "dict"
       /\ (HasKey(value, "meta") /\ HasKey(DictGet(value, "meta", PyNone), "dagster")) =>
              DictGet(DictGet(value, "meta", PyNone), "dagster", PyNone).t = "dict"
       /\ MetaDagster(value, "asset_key").t \in {"none", "str", "list"}

\* C9 as stated: for a replication whose descriptors are null or structured,
\* asset_key overrides that are strings or lists of strings included,
\* enumerating the streams and computing both keys of each raises nothing.
C9_TranslationNeverRaises ==
    (Called /\ \A i \in 1..Len(Items) : NullOrStructured(Items[i].value)) =>
        pc # "raised"

\* get_streams_from_replication returned to sling_assets.
StreamsReturned == Called /\ exc.at # "get_streams_from_replication"

HasNonEmptyAssetKey(value) == Truthy(MetaDagster(value, "asset_key"))

C11_DepsKeyUntouchedByAssetKeyOverride ==
    Translated =>
        \A i \in 1..Len(Items) :
            (/\ HasNonEmptyAssetKey(Items[i].value)
             /\ MetaDagster(Items[i].value, "deps") = PyNone) =>
                specs[i].deps = Split(sanitize_stream_name(Items[i].key), ".")

----------------------------------------------------------------------------
\* RedshiftDbClient.delete_table_slice (dagster_aws/redshift/io_manager.py)
\*
\* A SQL statement is the sequence of the pieces its f-string joins.  The
\* connection records whether connect returned it (opened), whether it is
\* still open, and the calls made on it with their outcomes.

DigitChars == <<"0", "1", "2", "3", "4", "5", "6", "7", "8", "9">>

\* %m, %d, %H, %M, %S: two digits, zero-padded.
TwoDigits(n) == <<DigitChars[(n \div 10) + 1], DigitChars[(n % 10) + 1]>>

\* %Y: four digits.
FourDigits(n) == TwoDigits(n \div 100) \o TwoDigits(n % 100)

\* dt.strftime(REDSHIFT_DATETIME_FORMAT), the format "%Y-%m-%d %H:%M:%S".
strftime(dt) ==
    FourDigits(dt.year) \o <<"-">> \o TwoDigits(dt.month) \o <<"-">> \o TwoDigits(dt.day)
    \o <<" ">> \o TwoDigits(dt.hour) \o <<":">> \o TwoDigits(dt.minute)
    \o <<":">> \o TwoDigits(dt.second)

time_window_where_clause(table_partition) ==
    LET start_dt_str == strftime(table_partition.time_window[1])
        end_dt_str == strftime(table_partition.time_window[2])
    IN  <<"WHERE ", table_partition.partition_column, " >= '">> \o start_dt_str
        \o <<"' AND ", table_partition.partition_column, " < '">> \o end_dt_str \o <<"'">>

get_cleanup_statement(ts) ==
    IF ts.partition.present
    THEN <<"DELETE FROM ", ts.schema, ".", ts.table, "\n">>
         \o time_window_where_clause(ts.partition)
    ELSE <<"DELETE FROM ", ts.schema, ".", ts.table>>

DateTime(y, mo, d, h, mi, sec) ==
    [year |-> y, month |-> mo, day |-> d, hour |-> h, minute |-> mi, second |-> sec]

NoPartition == [present |-> FALSE]

TablePartition(column, start, end) ==
    [present |-> TRUE, partition_column |-> column, time_window |-> <<start, end>>]

Partitions ==
    { NoPartition,
      TablePartition("day", DateTime(2023, 1, 9, 0, 0, 0), DateTime(2023, 1, 10, 0, 0, 0)),
      TablePartition("ts", DateTime(2022, 12, 31, 23, 0, 5), DateTime(2023, 1, 1, 0, 0, 5)) }

TableSlices ==
    [schema : {"public", "my_schema"}, table : {"my_table", "events"}, partition : Partitions]

\* What a call into the driver can do: return, raise an exception derived
\* from Exception, or (a statement being waited for) be interrupted by an
\* exception outside Exception such as KeyboardInterrupt.
DriverOutcomes == {"ok", "Exception"}

ExecuteOutcomes == {"ok", "Exception", "BaseException"}

CallOn(op, arg, outcome) == [op |-> op, arg |-> arg, outcome |-> outcome]

\* No except clause: nothing raised in the try block is caught.
Caught_nothing(e) == FALSE

\* except Exception: what the handler of the try block catches.
Caught(e) == e = "Exception"

\* delete_table_slice(context, table_slice) is called.
delete_table_slice ==
    /\ rs_pc = "idle"
    /\ \E ts \in TableSlices :
           /\ table_slice' = ts
           /\ rs_pc' = "connecting"
           /\ UNCHANGED <<conn, rs_exc>>
    /\ UNCHANGED <<decorator_vars, translator_vars>>

\* _connect_redshift up to its yield: redshift_connector.connect returns the
\* connection, or raises before there is one.
connect_redshift_enter ==
    /\ rs_pc = "connecting"
    /\ \E outcome \in DriverOutcomes :
           IF outcome = "ok"
           THEN /\ conn' = [opened |-> TRUE, open |-> TRUE, calls |-> <<>>]
                /\ rs_pc' = "in_with"
                /\ UNCHANGED rs_exc
           ELSE /\ rs_exc' = outcome
                /\ rs_pc' = "propagated"
                /\ UNCHANGED conn
    /\ UNCHANGED table_slice
    /\ UNCHANGED <<decorator_vars, translator_vars>>

\* The try block of the with body: conn.cursor().execute(<cleanup statement>).
\* A caught exception is passed over and the body ends normally; one that is
\* not caught is thrown into the generator at its yield, which has no
\* try/finally, so neither commit nor close runs and it propagates.
execute_cleanup ==
    /\ rs_pc = "in_with"
    /\ \E outcome \in ExecuteOutcomes :
           /\ conn' = [conn EXCEPT !.calls =
                          Append(@, CallOn("execute", get_cleanup_statement(table_slice), outcome))]
           /\ IF outcome = "ok" \/ Caught(outcome)
              THEN /\ rs_pc' = "exiting"
                   /\ UNCHANGED rs_exc
              ELSE /\ rs_exc' = outcome
                   /\ rs_pc' = "propagated"
    /\ UNCHANGED table_slice
    /\ UNCHANGED <<decorator_vars, translator_vars>>

\* _connect_redshift after its yield: conn.commit().
connect_redshift_commit ==
    /\ rs_pc = "exiting"
    /\ \E outcome \in DriverOutcomes :
           /\ conn' = [conn EXCEPT !.calls = Append(@, CallOn("commit", <<>>, outcome))]
           /\ IF outcome = "ok"
              THEN /\ rs_pc' = "closing"
                   /\ UNCHANGED rs_exc
              ELSE /\ rs_exc' = outcome
                   /\ rs_pc' = "propagated"
    /\ UNCHANGED table_slice
    /\ UNCHANGED <<decorator_vars, translator_vars>>

\* _connect_redshift after its yield: conn.close(), then delete_table_slice
\* returns None.
connect_redshift_close ==
    /\ rs_pc = "closing"
    /\ \E outcome \in DriverOutcomes :
           IF outcome = "ok"
           THEN /\ conn' = [conn EXCEPT !.calls = Append(@, CallOn("close", <<>>, outcome)),
                                        !.open = FALSE]
                /\ rs_pc' = "returned"
                /\ UNCHANGED rs_exc
           ELSE /\ conn' = [conn EXCEPT !.calls = Append(@, CallOn("close", <<>>, outcome))]
                /\ rs_exc' = outcome
                /\ rs_pc' = "propagated"
    /\ UNCHANGED table_slice
    /\ UNCHANGED <<decorator_vars, translator_vars>>

NextRedshift ==
    \/ delete_table_slice
    \/ connect_redshift_enter
    \/ execute_cleanup
    \/ connect_redshift_commit
    \/ connect_redshift_close

SpecRedshift == Init /\ [][NextRedshift]_vars

----------------------------------------------------------------------------
\* Properties of delete_table_slice (SpecRedshift)

\* The call is over: it returned or an exception left it.
Finished == rs_pc \in {"returned", "propagated"}

\* The calls of op made on the connection, in order.
CallsOf(op) == SelectSeq(conn.calls, LAMBDA c : c.op = op)

CommittedThenClosedOnce ==
    /\ Len(CallsOf("commit")) = 1
    /\ Len(CallsOf("close")) = 1
    /\ Len(conn.calls) = 3
    /\ conn.calls[2].op = "commit"
    /\ conn.calls[3].op = "close"
    /\ ~conn.open

====
